---------------------------- MODULE Spec2Model ----------------------------
(***************************************************************************)
(* Model of internal/handlers/group/group.go: the HTTP handler layer for   *)
(* groups and group membership.  Every handler extracts its inputs (path   *)
(* parameters, JSON body), calls one method of the group service and       *)
(* writes one response envelope.                                           *)
(*                                                                         *)
(* A request is handled in two steps, split at the only blocking point of  *)
(* a handler, the service call: the first step runs the handler up to the  *)
(* invocation of the service (or to the 400 response), the second step is  *)
(* the return of the service and the rest of the handler.  Steps of        *)
(* different requests interleave freely.                                   *)
(***************************************************************************)
EXTENDS Integers, Sequences, FiniteSets, Bags, TLC

\* Go's nil (no error, no payload, no details).
Nil == "nil"

---------------------------------------------------------------------------
\* Bounds of the model.

\* Longest request body, in JSON tokens, of the single-request specification.
MaxBodyLen == 5

\* Number of requests in flight in the concurrent specification.
NumRequests == 2

---------------------------------------------------------------------------
\* net/http status codes used by the handlers.

StatusOK == 200
StatusCreated == 201
StatusBadRequest == 400
StatusInternalServerError == 500

\* The error code every error envelope of this handler carries.
API_ERROR == "API_ERROR"

---------------------------------------------------------------------------
\* Request bodies: sequences of JSON tokens.

StringTokens == {"name", "Engineering"}
NumberTokens == {"7"}
Tokens == {"{", "}", ":"} \cup StringTokens \cup NumberTokens

BodiesUpTo(n) == UNION {[1..k -> Tokens] : k \in 0..n}

\* Bodies of the concurrent specification: empty, a number where
\* the name should be, and a well-formed body.
SampleBodies ==
    { <<>>,
      <<"{", "name", ":", "Engineering", "}">>,
      <<"{", "name", ":", "7", "}">> }

\* json.Decoder's scan of the value that starts at token i: the index after
\* the value, or the error that stops the scan.  An object holds at most one
\* member (the token alphabet has no comma).
RECURSIVE ScanValue(_, _)
ScanValue(b, i) ==
    IF i > Len(b) THEN [err |-> "unexpected EOF", end |-> i]
    ELSE IF b[i] \in StringTokens \cup NumberTokens THEN [err |-> Nil, end |-> i + 1]
    ELSE IF b[i] # "{" THEN [err |-> "SyntaxError", end |-> i]
    ELSE IF i + 1 > Len(b) THEN [err |-> "unexpected EOF", end |-> i + 1]
    ELSE IF b[i + 1] = "}" THEN [err |-> Nil, end |-> i + 2]
    ELSE IF b[i + 1] \notin StringTokens THEN [err |-> "SyntaxError", end |-> i + 1]
    ELSE IF i + 2 > Len(b) THEN [err |-> "unexpected EOF", end |-> i + 2]
    ELSE IF b[i + 2] # ":" THEN [err |-> "SyntaxError", end |-> i + 2]
    ELSE LET v == ScanValue(b, i + 3) IN
         IF v.err # Nil THEN v
         ELSE IF v.end > Len(b) THEN [err |-> "unexpected EOF", end |-> v.end]
         ELSE IF b[v.end] # "}" THEN [err |-> "SyntaxError", end |-> v.end]
         ELSE [err |-> Nil, end |-> v.end + 1]

\* json.NewDecoder(r.Body).Decode(&req) for a request struct with a Name
\* field: the first JSON value of the stream is scanned (what follows it is
\* not looked at), then unmarshalled.  An empty stream is io.EOF; a value
\* that is not an object, or a "name" that is not a string, is an
\* UnmarshalTypeError; other keys are ignored.
Decode(b) ==
    IF Len(b) = 0 THEN [err |-> "EOF", Name |-> ""]
    ELSE LET s == ScanValue(b, 1) IN
         IF s.err # Nil THEN [err |-> s.err, Name |-> ""]
         ELSE IF b[1] # "{" THEN [err |-> "UnmarshalTypeError", Name |-> ""]
         ELSE IF b[2] = "}" THEN [err |-> Nil, Name |-> ""]
         ELSE IF b[2] # "name" THEN [err |-> Nil, Name |-> ""]
         ELSE IF b[4] \in StringTokens THEN [err |-> Nil, Name |-> b[4]]
         ELSE [err |-> "UnmarshalTypeError", Name |-> ""]

---------------------------------------------------------------------------
\* Requests.

Ops == { "CreateGroup", "GetGroups", "GetGroup", "UpdateGroup", "DeleteGroup",
         "GetGroupMembers", "AddUserToGroup", "RemoveUserFromGroup" }

\* Values of a path parameter: chi.URLParam gives "" for a missing one.
GroupIDs == {"", "g1"}
UserIDs == {"", "u1"}

Request(op, groupID, userID, body) ==
    [op |-> op, groupID |-> groupID, userID |-> userID, body |-> body]

\* The requests the router can hand to the handlers, with bodies from B.
\* Inputs a handler never looks at are left empty.
Requests(B) ==
    {Request("CreateGroup", "", "", b) : b \in B}
    \cup {Request("GetGroups", "", "", <<>>)}
    \cup {Request(op, g, "", <<>>) :
            op \in {"GetGroup", "DeleteGroup", "GetGroupMembers"}, g \in GroupIDs}
    \cup {Request("UpdateGroup", g, "", b) : g \in GroupIDs, b \in B}
    \cup {Request(op, g, u, <<>>) :
            op \in {"AddUserToGroup", "RemoveUserFromGroup"},
            g \in GroupIDs, u \in UserIDs}

---------------------------------------------------------------------------
\* What the group service can return.  The service is an opaque collaborator:
\* every call returns either an error or a value of the method's result type.

SvcErrors == {"not found", "upstream unavailable"}

Groups == { [ID |-> "g1", Name |-> "Engineering"], [ID |-> "g2", Name |-> "name"] }
GroupLists == { <<>>, <<[ID |-> "g1", Name |-> "Engineering"]>> }
MemberLists == { <<>>, <<[UserID |-> "u1"]>> }

Failures == {[err |-> e, val |-> Nil] : e \in SvcErrors}
Returns(V) == Failures \cup {[err |-> Nil, val |-> v] : v \in V}

---------------------------------------------------------------------------
VARIABLES
    h,       \* the Handler's fields
    req,     \* req[r]: the inputs of request r
    pc,      \* pc[r]: "recv" (handler not entered), "svc" (in the service call), "done"
    bodyRead, \* bodyRead[r]: the decoder has read from request r's body
    local,   \* local[r]: the handler's request struct (var req), zero until decoded
    calls,   \* calls[r]: the service invocations made for request r, in order
    ret,     \* ret[r]: what the service calls of request r returned, in order
    resp,    \* resp[r]: the envelopes written to request r's ResponseWriter, in order
    log      \* the log sink: a bag of entries

vars == <<h, req, pc, bodyRead, local, calls, ret, resp, log>>

\* New(log, svc)
New(l, svc) == [log |-> l, groupsSvc |-> svc]

InitWith(ids, R) ==
    /\ h = New("logger", "groupService")
    /\ req \in [ids -> R]
    /\ pc = [r \in ids |-> "recv"]
    /\ local = [r \in ids |-> [Name |-> ""]]
    /\ bodyRead = [r \in ids |-> FALSE]
    /\ calls = [r \in ids |-> <<>>]
    /\ ret = [r \in ids |-> <<>>]
    /\ resp = [r \in ids |-> <<>>]
    /\ log = EmptyBag

\* One request, any body of up to MaxBodyLen tokens.
Init == InitWith({1}, Requests(BodiesUpTo(MaxBodyLen)))

\* NumRequests requests handled concurrently.
InitConc == InitWith(1..NumRequests, Requests(SampleBodies))

---------------------------------------------------------------------------
\* The collaborators' calls.

\* h.log.Infow(msg, zap.Error(err), key, value, ...)
Entry(msg, err, kv) == [msg |-> msg, err |-> err, kv |-> kv]

\* The entries the handler logs in one step.
Infow(entries) == log' = log (+) SetToBag(entries)

\* response.RespondError(w, statusCode, code, message, details)
RespondError(r, statusCode, code, message, details) ==
    resp' = [resp EXCEPT ![r] = Append(@,
                [status |-> "error", statusCode |-> statusCode, code |-> code,
                 message |-> message, details |-> details])]

\* response.RespondSuccess(w, statusCode, message, data)
RespondSuccess(r, statusCode, message, data) ==
    resp' = [resp EXCEPT ![r] = Append(@,
                [status |-> "success", statusCode |-> statusCode,
                 message |-> message, data |-> data])]

respondWithError(r, message, statusCode) ==
    RespondError(r, statusCode, API_ERROR, message, Nil)

\* json.NewDecoder(r.Body) reads the body of request r.
ReadBody(r) == bodyRead' = [bodyRead EXCEPT ![r] = TRUE]

\* h.groupsSvc.<method>(r.Context(), args...) is entered.
Invoke(r, method, args) ==
    /\ calls' = [calls EXCEPT ![r] = Append(@, [method |-> method, args |-> args])]
    /\ pc' = [pc EXCEPT ![r] = "svc"]

\* The handler returns.
Return(r) == pc' = [pc EXCEPT ![r] = "done"]

---------------------------------------------------------------------------
\* The handlers.  For a handler X, XEnter is its code up to the invocation of
\* the service (or to the 400 response) and XFinish is its code from the
\* return of the service on.

\* ---- CreateGroup ----

CreateGroupEnter_IgnoreEOF(r) ==
    /\ pc[r] = "recv"
    /\ ReadBody(r)
    /\ LET d == Decode(req[r].body) IN
       IF d.err # Nil /\ d.err # "EOF"
       THEN /\ Infow({ Entry("Create group request received", Nil, <<>>),
                       Entry("Failed to decode create group request", d.err, <<>>) })
            /\ respondWithError(r, "Invalid request body", StatusBadRequest)
            /\ Return(r)
            /\ UNCHANGED <<local, calls>>
       ELSE /\ Infow({ Entry("Create group request received", Nil, <<>>) })
            /\ local' = [local EXCEPT ![r] = [Name |-> d.Name]]
            /\ Invoke(r, "CreateGroup", <<[Name |-> d.Name]>>)
            /\ UNCHANGED resp
    /\ UNCHANGED <<h, req, ret>>

CreateGroupEnter(r) ==
    /\ pc[r] = "recv"
    /\ ReadBody(r)
    /\ LET d == Decode(req[r].body) IN
       IF d.err # Nil
       THEN /\ Infow({ Entry("Create group request received", Nil, <<>>),
                       Entry("Failed to decode create group request", d.err, <<>>) })
            /\ respondWithError(r, "Invalid request body", StatusBadRequest)
            /\ Return(r)
            /\ UNCHANGED <<local, calls>>
       ELSE /\ Infow({ Entry("Create group request received", Nil, <<>>) })
            /\ local' = [local EXCEPT ![r] = [Name |-> d.Name]]
            /\ Invoke(r, "CreateGroup", <<[Name |-> d.Name]>>)
            /\ UNCHANGED resp
    /\ UNCHANGED <<h, req, ret>>

CreateGroupFinish_ReqName(r) ==
    /\ pc[r] = "svc"
    /\ \E res \in Returns(Groups) :
          /\ ret' = [ret EXCEPT ![r] = Append(@, res)]
          /\ IF res.err # Nil
             THEN /\ Infow({ Entry("Failed to create group", res.err,
                                   <<"name", local[r].Name>>) })
                  /\ respondWithError(r, "Failed to create group",
                                      StatusInternalServerError)
             ELSE /\ Infow({ Entry("Group created successfully", Nil,
                                   <<"groupId", res.val.ID, "name", res.val.Name>>) })
                  /\ RespondSuccess(r, StatusCreated,
                         "Group '" \o local[r].Name \o "' created successfully",
                         res.val)
    /\ Return(r)
    /\ UNCHANGED <<h, req, bodyRead, local, calls>>

CreateGroupFinish(r) ==
    /\ pc[r] = "svc"
    /\ \E res \in Returns(Groups) :
          /\ ret' = [ret EXCEPT ![r] = Append(@, res)]
          /\ IF res.err # Nil
             THEN /\ Infow({ Entry("Failed to create group", res.err,
                                   <<"name", local[r].Name>>) })
                  /\ respondWithError(r, "Failed to create group",
                                      StatusInternalServerError)
             ELSE /\ Infow({ Entry("Group created successfully", Nil,
                                   <<"groupId", res.val.ID, "name", res.val.Name>>) })
                  /\ RespondSuccess(r, StatusCreated,
                         "Group '" \o res.val.Name \o "' created successfully",
                         res.val)
    /\ Return(r)
    /\ UNCHANGED <<h, req, bodyRead, local, calls>>

CreateGroup(r) ==
    /\ req[r].op = "CreateGroup"
    /\ (CreateGroupEnter(r) \/ CreateGroupFinish(r))

\* ---- GetGroups ----

GetGroupsEnter(r) ==
    /\ pc[r] = "recv"
    /\ Infow({ Entry("Get groups request received", Nil, <<>>) })
    /\ Invoke(r, "GetGroups", <<>>)
    /\ UNCHANGED <<h, req, bodyRead, local, ret, resp>>

GetGroupsFinish(r) ==
    /\ pc[r] = "svc"
    /\ \E res \in Returns(GroupLists) :
          /\ ret' = [ret EXCEPT ![r] = Append(@, res)]
          /\ IF res.err # Nil
             THEN /\ Infow({ Entry("Failed to get groups", res.err, <<>>) })
                  /\ respondWithError(r, "Failed to retrieve groups",
                                      StatusInternalServerError)
             ELSE /\ Infow({ Entry("Groups retrieved successfully", Nil,
                                   <<"count", Len(res.val)>>) })
                  /\ RespondSuccess(r, StatusOK, "Success", res.val)
    /\ Return(r)
    /\ UNCHANGED <<h, req, bodyRead, local, calls>>

GetGroups(r) ==
    /\ req[r].op = "GetGroups"
    /\ (GetGroupsEnter(r) \/ GetGroupsFinish(r))

\* ---- GetGroup ----

GetGroupEnter_Cached(r) ==
    /\ pc[r] = "recv"
    /\ IF req[r].groupID = ""
       THEN /\ respondWithError(r, "Group ID is required", StatusBadRequest)
            /\ Return(r)
            /\ UNCHANGED <<h, calls, log>>
       ELSE /\ h' = [log |-> h.log, groupsSvc |-> h.groupsSvc,
                     groupID |-> req[r].groupID]
            /\ Infow({ Entry("Get group request received", Nil,
                             <<"groupId", req[r].groupID>>) })
            /\ Invoke(r, "GetGroup", <<req[r].groupID>>)
            /\ UNCHANGED resp
    /\ UNCHANGED <<req, bodyRead, local, ret>>

GetGroupEnter(r) ==
    /\ pc[r] = "recv"
    /\ IF req[r].groupID = ""
       THEN /\ respondWithError(r, "Group ID is required", StatusBadRequest)
            /\ Return(r)
            /\ UNCHANGED <<calls, log>>
       ELSE /\ Infow({ Entry("Get group request received", Nil,
                             <<"groupId", req[r].groupID>>) })
            /\ Invoke(r, "GetGroup", <<req[r].groupID>>)
            /\ UNCHANGED resp
    /\ UNCHANGED <<h, req, bodyRead, local, ret>>

GetGroupFinish_ErrMessage(r) ==
    /\ pc[r] = "svc"
    /\ \E res \in Returns(Groups) :
          /\ ret' = [ret EXCEPT ![r] = Append(@, res)]
          /\ IF res.err # Nil
             THEN /\ Infow({ Entry("Failed to get group", res.err,
                                   <<"groupId", req[r].groupID>>) })
                  /\ respondWithError(r, "Failed to retrieve group: " \o res.err,
                                      StatusInternalServerError)
             ELSE /\ Infow({ Entry("Group retrieved successfully", Nil,
                                   <<"groupId", req[r].groupID>>) })
                  /\ RespondSuccess(r, StatusOK, "Success", res.val)
    /\ Return(r)
    /\ UNCHANGED <<h, req, bodyRead, local, calls>>

GetGroupFinish(r) ==
    /\ pc[r] = "svc"
    /\ \E res \in Returns(Groups) :
          /\ ret' = [ret EXCEPT ![r] = Append(@, res)]
          /\ IF res.err # Nil
             THEN /\ Infow({ Entry("Failed to get group", res.err,
                                   <<"groupId", req[r].groupID>>) })
                  /\ respondWithError(r, "Failed to retrieve group",
                                      StatusInternalServerError)
             ELSE /\ Infow({ Entry("Group retrieved successfully", Nil,
                                   <<"groupId", req[r].groupID>>) })
                  /\ RespondSuccess(r, StatusOK, "Success", res.val)
    /\ Return(r)
    /\ UNCHANGED <<h, req, bodyRead, local, calls>>

GetGroup(r) ==
    /\ req[r].op = "GetGroup"
    /\ (GetGroupEnter(r) \/ GetGroupFinish(r))

\* ---- UpdateGroup ----

UpdateGroupEnter_DecodeFirst(r) ==
    /\ pc[r] = "recv"
    /\ ReadBody(r)
    /\ LET d == Decode(req[r].body) IN
       IF d.err # Nil
       THEN /\ Infow({ Entry("Update group request received", Nil,
                             <<"groupId", req[r].groupID>>),
                       Entry("Failed to decode update group request", d.err, <<>>) })
            /\ respondWithError(r, "Invalid request body", StatusBadRequest)
            /\ Return(r)
            /\ UNCHANGED <<local, calls>>
       ELSE IF req[r].groupID = ""
       THEN /\ respondWithError(r, "Group ID is required", StatusBadRequest)
            /\ Return(r)
            /\ UNCHANGED <<local, calls, log>>
       ELSE /\ Infow({ Entry("Update group request received", Nil,
                             <<"groupId", req[r].groupID>>) })
            /\ local' = [local EXCEPT ![r] = [Name |-> d.Name]]
            /\ Invoke(r, "UpdateGroup", <<req[r].groupID, [Name |-> d.Name]>>)
            /\ UNCHANGED resp
    /\ UNCHANGED <<h, req, ret>>

UpdateGroupEnter(r) ==
    /\ pc[r] = "recv"
    /\ IF req[r].groupID = ""
       THEN /\ respondWithError(r, "Group ID is required", StatusBadRequest)
            /\ Return(r)
            /\ UNCHANGED <<bodyRead, local, calls, log>>
       ELSE LET d == Decode(req[r].body) IN
            IF d.err # Nil
            THEN /\ Infow({ Entry("Update group request received", Nil,
                                  <<"groupId", req[r].groupID>>),
                            Entry("Failed to decode update group request",
                                  d.err, <<>>) })
                 /\ respondWithError(r, "Invalid request body", StatusBadRequest)
                 /\ Return(r)
                 /\ ReadBody(r)
                 /\ UNCHANGED <<local, calls>>
            ELSE /\ Infow({ Entry("Update group request received", Nil,
                                  <<"groupId", req[r].groupID>>) })
                 /\ local' = [local EXCEPT ![r] = [Name |-> d.Name]]
                 /\ Invoke(r, "UpdateGroup", <<req[r].groupID, [Name |-> d.Name]>>)
                 /\ ReadBody(r)
                 /\ UNCHANGED resp
    /\ UNCHANGED <<h, req, ret>>

UpdateGroupFinish_EchoRequest(r) ==
    /\ pc[r] = "svc"
    /\ \E res \in Returns(Groups) :
          /\ ret' = [ret EXCEPT ![r] = Append(@, res)]
          /\ IF res.err # Nil
             THEN /\ Infow({ Entry("Failed to update group", res.err,
                                   <<"groupId", req[r].groupID>>) })
                  /\ respondWithError(r, "Failed to update group",
                                      StatusInternalServerError)
             ELSE /\ Infow({ Entry("Group updated successfully", Nil,
                                   <<"groupId", req[r].groupID>>) })
                  /\ RespondSuccess(r, StatusOK, "Group updated successfully",
                                    local[r])
    /\ Return(r)
    /\ UNCHANGED <<h, req, bodyRead, local, calls>>

UpdateGroupFinish(r) ==
    /\ pc[r] = "svc"
    /\ \E res \in Returns(Groups) :
          /\ ret' = [ret EXCEPT ![r] = Append(@, res)]
          /\ IF res.err # Nil
             THEN /\ Infow({ Entry("Failed to update group", res.err,
                                   <<"groupId", req[r].groupID>>) })
                  /\ respondWithError(r, "Failed to update group",
                                      StatusInternalServerError)
             ELSE /\ Infow({ Entry("Group updated successfully", Nil,
                                   <<"groupId", req[r].groupID>>) })
                  /\ RespondSuccess(r, StatusOK, "Group updated successfully",
                                    res.val)
    /\ Return(r)
    /\ UNCHANGED <<h, req, bodyRead, local, calls>>

UpdateGroup(r) ==
    /\ req[r].op = "UpdateGroup"
    /\ (UpdateGroupEnter(r) \/ UpdateGroupFinish(r))

\* ---- DeleteGroup ----

DeleteGroupEnter(r) ==
    /\ pc[r] = "recv"
    /\ IF req[r].groupID = ""
       THEN /\ respondWithError(r, "Group ID is required", StatusBadRequest)
            /\ Return(r)
            /\ UNCHANGED <<calls, log>>
       ELSE /\ Infow({ Entry("Delete group request received", Nil,
                             <<"groupId", req[r].groupID>>) })
            /\ Invoke(r, "DeleteGroup", <<req[r].groupID>>)
            /\ UNCHANGED resp
    /\ UNCHANGED <<h, req, bodyRead, local, ret>>

DeleteGroupFinish_NoReturn(r) ==
    /\ pc[r] = "svc"
    /\ \E res \in Returns({Nil}) :
          /\ ret' = [ret EXCEPT ![r] = Append(@, res)]
          /\ IF res.err # Nil
             THEN /\ Infow({ Entry("Failed to delete group", res.err,
                                   <<"groupId", req[r].groupID>>),
                             Entry("Group deleted successfully", Nil,
                                   <<"groupId", req[r].groupID>>) })
                  /\ resp' = [resp EXCEPT ![r] = @ \o
                        << [status |-> "error",
                            statusCode |-> StatusInternalServerError,
                            code |-> API_ERROR,
                            message |-> "Failed to delete group", details |-> Nil],
                           [status |-> "success", statusCode |-> StatusOK,
                            message |-> "Group deleted successfully",
                            data |-> Nil] >>]
             ELSE /\ Infow({ Entry("Group deleted successfully", Nil,
                                   <<"groupId", req[r].groupID>>) })
                  /\ RespondSuccess(r, StatusOK, "Group deleted successfully", Nil)
    /\ Return(r)
    /\ UNCHANGED <<h, req, bodyRead, local, calls>>

DeleteGroupFinish(r) ==
    /\ pc[r] = "svc"
    /\ \E res \in Returns({Nil}) :
          /\ ret' = [ret EXCEPT ![r] = Append(@, res)]
          /\ IF res.err # Nil
             THEN /\ Infow({ Entry("Failed to delete group", res.err,
                                   <<"groupId", req[r].groupID>>) })
                  /\ respondWithError(r, "Failed to delete group",
                                      StatusInternalServerError)
             ELSE /\ Infow({ Entry("Group deleted successfully", Nil,
                                   <<"groupId", req[r].groupID>>) })
                  /\ RespondSuccess(r, StatusOK, "Group deleted successfully", Nil)
    /\ Return(r)
    /\ UNCHANGED <<h, req, bodyRead, local, calls>>

DeleteGroup(r) ==
    /\ req[r].op = "DeleteGroup"
    /\ (DeleteGroupEnter(r) \/ DeleteGroupFinish(r))

\* ---- GetGroupMembers ----

GetGroupMembersEnter(r) ==
    /\ pc[r] = "recv"
    /\ IF req[r].groupID = ""
       THEN /\ respondWithError(r, "Group ID is required", StatusBadRequest)
            /\ Return(r)
            /\ UNCHANGED <<calls, log>>
       ELSE /\ Infow({ Entry("Get group members request received", Nil,
                             <<"groupId", req[r].groupID>>) })
            /\ Invoke(r, "GetGroupMembers", <<req[r].groupID>>)
            /\ UNCHANGED resp
    /\ UNCHANGED <<h, req, bodyRead, local, ret>>

GetGroupMembersFinish_NotFound(r) ==
    /\ pc[r] = "svc"
    /\ \E res \in Returns(MemberLists) :
          /\ ret' = [ret EXCEPT ![r] = Append(@, res)]
          /\ IF res.err # Nil
             THEN /\ Infow({ Entry("Failed to get group members", res.err,
                                   <<"groupId", req[r].groupID>>) })
                  /\ respondWithError(r, "Failed to retrieve group members",
                                      IF res.err = "not found"
                                      THEN 404 ELSE StatusInternalServerError)
             ELSE /\ Infow({ Entry("Group members retrieved successfully", Nil,
                                   <<"groupId", req[r].groupID,
                                     "memberCount", Len(res.val)>>) })
                  /\ RespondSuccess(r, StatusOK, "Success", res.val)
    /\ Return(r)
    /\ UNCHANGED <<h, req, bodyRead, local, calls>>

GetGroupMembersFinish(r) ==
    /\ pc[r] = "svc"
    /\ \E res \in Returns(MemberLists) :
          /\ ret' = [ret EXCEPT ![r] = Append(@, res)]
          /\ IF res.err # Nil
             THEN /\ Infow({ Entry("Failed to get group members", res.err,
                                   <<"groupId", req[r].groupID>>) })
                  /\ respondWithError(r, "Failed to retrieve group members",
                                      StatusInternalServerError)
             ELSE /\ Infow({ Entry("Group members retrieved successfully", Nil,
                                   <<"groupId", req[r].groupID,
                                     "memberCount", Len(res.val)>>) })
                  /\ RespondSuccess(r, StatusOK, "Success", res.val)
    /\ Return(r)
    /\ UNCHANGED <<h, req, bodyRead, local, calls>>

GetGroupMembers(r) ==
    /\ req[r].op = "GetGroupMembers"
    /\ (GetGroupMembersEnter(r) \/ GetGroupMembersFinish(r))

\* ---- AddUserToGroup ----

AddUserToGroupEnter_BothEmpty(r) ==
    /\ pc[r] = "recv"
    /\ IF req[r].groupID = "" /\ req[r].userID = ""
       THEN /\ respondWithError(r, "Both Group ID and User ID are required",
                                StatusBadRequest)
            /\ Return(r)
            /\ UNCHANGED <<calls, log>>
       ELSE /\ Infow({ Entry("Add user to group request received", Nil,
                             <<"groupId", req[r].groupID, "userId", req[r].userID>>) })
            /\ Invoke(r, "AddUserToGroup", <<req[r].groupID, req[r].userID>>)
            /\ UNCHANGED resp
    /\ UNCHANGED <<h, req, bodyRead, local, ret>>

AddUserToGroupEnter(r) ==
    /\ pc[r] = "recv"
    /\ IF req[r].groupID = "" \/ req[r].userID = ""
       THEN /\ respondWithError(r, "Both Group ID and User ID are required",
                                StatusBadRequest)
            /\ Return(r)
            /\ UNCHANGED <<calls, log>>
       ELSE /\ Infow({ Entry("Add user to group request received", Nil,
                             <<"groupId", req[r].groupID, "userId", req[r].userID>>) })
            /\ Invoke(r, "AddUserToGroup", <<req[r].groupID, req[r].userID>>)
            /\ UNCHANGED resp
    /\ UNCHANGED <<h, req, bodyRead, local, ret>>

AddUserToGroupFinish(r) ==
    /\ pc[r] = "svc"
    /\ \E res \in Returns({Nil}) :
          /\ ret' = [ret EXCEPT ![r] = Append(@, res)]
          /\ IF res.err # Nil
             THEN /\ Infow({ Entry("Failed to add user to group", res.err,
                                   <<"groupId", req[r].groupID,
                                     "userId", req[r].userID>>) })
                  /\ respondWithError(r, "Failed to add user to group",
                                      StatusInternalServerError)
             ELSE /\ Infow({ Entry("User added to group successfully", Nil,
                                   <<"groupId", req[r].groupID,
                                     "userId", req[r].userID>>) })
                  /\ RespondSuccess(r, StatusOK,
                                    "User added to group successfully", Nil)
    /\ Return(r)
    /\ UNCHANGED <<h, req, bodyRead, local, calls>>

AddUserToGroup(r) ==
    /\ req[r].op = "AddUserToGroup"
    /\ (AddUserToGroupEnter(r) \/ AddUserToGroupFinish(r))

\* ---- RemoveUserFromGroup ----

RemoveUserFromGroupEnter(r) ==
    /\ pc[r] = "recv"
    /\ IF req[r].groupID = "" \/ req[r].userID = ""
       THEN /\ respondWithError(r, "Both Group ID and User ID are required",
                                StatusBadRequest)
            /\ Return(r)
            /\ UNCHANGED <<calls, log>>
       ELSE /\ Infow({ Entry("Remove user from group request received", Nil,
                             <<"groupId", req[r].groupID, "userId", req[r].userID>>) })
            /\ Invoke(r, "RemoveUserFromGroup", <<req[r].groupID, req[r].userID>>)
            /\ UNCHANGED resp
    /\ UNCHANGED <<h, req, bodyRead, local, ret>>

RemoveUserFromGroupFinish_Wrapped(r) ==
    /\ pc[r] = "svc"
    /\ \E res \in Returns({Nil}) :
          /\ ret' = [ret EXCEPT ![r] = Append(@, res)]
          /\ IF res.err # Nil
             THEN /\ Infow({ Entry("Failed to remove user from group", res.err,
                                   <<"groupId", req[r].groupID,
                                     "userId", req[r].userID>>) })
                  /\ RespondError(r, StatusInternalServerError, API_ERROR,
                                  "Failed to remove user from group", res.err)
             ELSE /\ Infow({ Entry("User removed from group successfully", Nil,
                                   <<"groupId", req[r].groupID,
                                     "userId", req[r].userID>>) })
                  /\ RespondSuccess(r, StatusOK,
                                    "User removed from group successfully", Nil)
    /\ Return(r)
    /\ UNCHANGED <<h, req, bodyRead, local, calls>>

RemoveUserFromGroupFinish(r) ==
    /\ pc[r] = "svc"
    /\ \E res \in Returns({Nil}) :
          /\ ret' = [ret EXCEPT ![r] = Append(@, res)]
          /\ IF res.err # Nil
             THEN /\ Infow({ Entry("Failed to remove user from group", res.err,
                                   <<"groupId", req[r].groupID,
                                     "userId", req[r].userID>>) })
                  /\ respondWithError(r, "Failed to remove user from group",
                                      StatusInternalServerError)
             ELSE /\ Infow({ Entry("User removed from group successfully", Nil,
                                   <<"groupId", req[r].groupID,
                                     "userId", req[r].userID>>) })
                  /\ RespondSuccess(r, StatusOK,
                                    "User removed from group successfully", Nil)
    /\ Return(r)
    /\ UNCHANGED <<h, req, bodyRead, local, calls>>

RemoveUserFromGroup(r) ==
    /\ req[r].op = "RemoveUserFromGroup"
    /\ (RemoveUserFromGroupEnter(r) \/ RemoveUserFromGroupFinish(r))

---------------------------------------------------------------------------
\* The server runs the handler of some request for one step.
Next ==
    \/ \E r \in DOMAIN pc : CreateGroup(r)
    \/ \E r \in DOMAIN pc : GetGroups(r)
    \/ \E r \in DOMAIN pc : GetGroup(r)
    \/ \E r \in DOMAIN pc : UpdateGroup(r)
    \/ \E r \in DOMAIN pc : DeleteGroup(r)
    \/ \E r \in DOMAIN pc : GetGroupMembers(r)
    \/ \E r \in DOMAIN pc : AddUserToGroup(r)
    \/ \E r \in DOMAIN pc : RemoveUserFromGroup(r)

Spec == Init /\ [][Next]_vars

ConcSpec == InitConc /\ [][Next]_vars

\* Every goroutine serving a request is scheduled, and the service call returns.
FairSpec == ConcSpec /\ WF_vars(Next)

---------------------------------------------------------------------------
\* Vocabulary of the properties.

Ids == DOMAIN pc
Done(r) == pc[r] = "done"
Returned(r) == ret[r] # <<>>
Failed(r) == Returned(r) /\ ret[r][1].err # Nil
Succeeded(r) == Returned(r) /\ ret[r][1].err = Nil

ErrorEnvelope(statusCode, message) ==
    [status |-> "error", statusCode |-> statusCode, code |-> "API_ERROR",
     message |-> message, details |-> Nil]

GroupIDOps == {"GetGroup", "UpdateGroup", "DeleteGroup", "GetGroupMembers"}
MemberOps == {"AddUserToGroup", "RemoveUserFromGroup"}
BodyOps == {"CreateGroup", "UpdateGroup"}

\* A required path parameter of request r is empty.
MissingPathParam(r) ==
    \/ req[r].op \in GroupIDOps /\ req[r].groupID = ""
    \/ req[r].op \in MemberOps /\ (req[r].groupID = "" \/ req[r].userID = "")

\* Request r gets as far as decoding its body, and the decoding fails.
DecodeFails(r) ==
    /\ req[r].op \in BodyOps
    /\ ~MissingPathParam(r)
    /\ Decode(req[r].body).err # Nil

\* The fixed message of each operation's 500 response.
ServiceErrorMessage(op) ==
    CASE op = "CreateGroup" -> "Failed to create group"
      [] op = "GetGroups" -> "Failed to retrieve groups"
      [] op = "GetGroup" -> "Failed to retrieve group"
      [] op = "UpdateGroup" -> "Failed to update group"
      [] op = "DeleteGroup" -> "Failed to delete group"
      [] op = "GetGroupMembers" -> "Failed to retrieve group members"
      [] op = "AddUserToGroup" -> "Failed to add user to group"
      [] op = "RemoveUserFromGroup" -> "Failed to remove user from group"

---------------------------------------------------------------------------
\* C1: a request with an empty required path parameter is answered 400 with
\* an error envelope without payload, with the message "Group ID is required"
\* (operations taking groupID) or "Both Group ID and User ID are required"
\* (operations taking groupID and userID), and the service is never invoked
\* for it.
C1_MissingPathParamIs400 ==
    \A r \in Ids :
        MissingPathParam(r) =>
            /\ calls[r] = <<>>
            /\ pc[r] # "svc"
            /\ Done(r) =>
                 resp[r] = << ErrorEnvelope(400,
                                 IF req[r].op \in MemberOps
                                 THEN "Both Group ID and User ID are required"
                                 ELSE "Group ID is required") >>

\* PUT /groups/g1/members/ (empty userID) has been answered.
C1_Witness ==
    \E r \in Ids :
        /\ req[r].op = "AddUserToGroup"
        /\ req[r].groupID = "g1"
        /\ req[r].userID = ""
        /\ Done(r)
        /\ resp[r][1].statusCode = 400

\* C2: when CreateGroup or UpdateGroup fails to decode the request body, the
\* response is 400 with message "Invalid request body" and the service is not
\* invoked for that request.
C2_DecodeFailureIs400 ==
    \A r \in Ids :
        DecodeFails(r) =>
            /\ calls[r] = <<>>
            /\ pc[r] # "svc"
            /\ Done(r) => resp[r] = << ErrorEnvelope(400, "Invalid request body") >>

\* An update whose body ends in the middle of the object has been answered.
C2_Witness ==
    \E r \in Ids :
        /\ req[r].op = "UpdateGroup"
        /\ Decode(req[r].body).err = "unexpected EOF"
        /\ bodyRead[r]
        /\ Done(r)
        /\ resp[r][1].message = "Invalid request body"

\* C3: when the service call returns an error, the response is exactly one
\* error envelope: status 500, code "API_ERROR", no details, and the fixed
\* message of the operation; no success envelope is written.
C3_ServiceErrorIs500 ==
    \A r \in Ids :
        Failed(r) =>
            /\ Done(r)
            /\ resp[r] = << ErrorEnvelope(500, ServiceErrorMessage(req[r].op)) >>

\* DELETE /groups/g1 whose service call failed has been answered.
C3_Witness ==
    \E r \in Ids :
        /\ req[r].op = "DeleteGroup"
        /\ req[r].groupID = "g1"
        /\ Failed(r)
        /\ resp[r][1].message = "Failed to delete group"

\* C4: when the inputs are accepted and the service call returns no error, the
\* response is exactly one success envelope, with status 201 for CreateGroup
\* and 200 for the other operations, whose data is the value the service
\* returned, and nil for DeleteGroup, AddUserToGroup and RemoveUserFromGroup.
C4_SuccessCarriesServiceValue ==
    \A r \in Ids :
        Succeeded(r) =>
            /\ Done(r)
            /\ Len(resp[r]) = 1
            /\ resp[r][1].status = "success"
            /\ resp[r][1].statusCode = (IF req[r].op = "CreateGroup" THEN 201 ELSE 200)
            /\ resp[r][1].data = ret[r][1].val
            /\ req[r].op \in {"DeleteGroup"} \cup MemberOps => resp[r][1].data = Nil

\* An update has been answered with the group the service returned, which is
\* not named as the request asked.
C4_Witness ==
    \E r \in Ids :
        /\ req[r].op = "UpdateGroup"
        /\ Succeeded(r)
        /\ local[r].Name # ret[r][1].val.Name
        /\ resp[r][1].data = ret[r][1].val

\* C5: the response does not depend on the service's error: two requests with
\* the same inputs whose service calls fail get the same response whatever
\* the two errors are, no field of the response is the error, and the error
\* is in the log.
C5_ErrorDetailNotExposed ==
    /\ \A r1, r2 \in Ids :
          (Failed(r1) /\ Failed(r2) /\ req[r1] = req[r2]) => resp[r1] = resp[r2]
    /\ \A r \in Ids :
          Failed(r) =>
             /\ \A i \in 1..Len(resp[r]) :
                   /\ resp[r][i].status = "error"
                   /\ resp[r][i].message \notin SvcErrors
                   /\ resp[r][i].details = Nil
             /\ \E e \in DOMAIN log : e.err = ret[r][1].err

\* Two requests with the same inputs have failed with different errors.
C5_Witness ==
    \E r1, r2 \in Ids :
        /\ req[r1] = req[r2]
        /\ Failed(r1)
        /\ Failed(r2)
        /\ ret[r1][1].err # ret[r2][1].err
        /\ resp[r1] # <<>>
        /\ resp[r2] # <<>>

\* C6: a CreateGroup whose body decodes and whose service call succeeds is
\* answered 201 with the message "Group '<N>' created successfully", N the
\* name of the group the service returned, and that group as data; for the
\* body {"name":"Engineering"} and the group {g1, Engineering} the message is
\* "Group 'Engineering' created successfully".
C6_CreateGroupMessage ==
    \A r \in Ids :
        (req[r].op = "CreateGroup" /\ Succeeded(r)) =>
            /\ resp[r] = << [status |-> "success", statusCode |-> 201,
                             message |-> "Group '" \o ret[r][1].val.Name
                                            \o "' created successfully",
                             data |-> ret[r][1].val] >>
            /\ ret[r][1].val = [ID |-> "g1", Name |-> "Engineering"] =>
                 resp[r][1].message = "Group 'Engineering' created successfully"

\* POST /groups with body {"name":"Engineering"}, the service returning
\* {g1, Engineering}, has been answered.
C6_Witness ==
    \E r \in Ids :
        /\ req[r].op = "CreateGroup"
        /\ req[r].body = <<"{", "name", ":", "Engineering", "}">>
        /\ Succeeded(r)
        /\ ret[r][1].val = [ID |-> "g1", Name |-> "Engineering"]
        /\ Done(r)

\* A step changes the per-request state of at most one request.
OneRequestPerStep ==
    \E q \in Ids :
        \A r \in Ids \ {q} :
            /\ pc'[r] = pc[r]
            /\ bodyRead'[r] = bodyRead[r]
            /\ local'[r] = local[r]
            /\ calls'[r] = calls[r]
            /\ ret'[r] = ret[r]
            /\ resp'[r] = resp[r]

C8_OneCallOneResponse ==
    /\ [](\A r \in Ids :
            /\ Len(resp[r]) <= 1
            /\ Len(calls[r]) <= 1
            /\ Len(ret[r]) <= Len(calls[r])
            /\ calls[r] # <<>> => calls[r][1].method = req[r].op
            /\ Done(r) <=> Len(resp[r]) = 1)
    /\ [][\A r \in Ids :
            /\ calls'[r] # calls[r] => resp'[r] = <<>>
            /\ (resp[r] # <<>> \/ Returned(r)) =>
                  (calls'[r] = calls[r] /\ resp'[r] = resp[r])]_vars
    /\ <>(\A r \in Ids : Done(r))

\* Every request has been answered, one of them after a failed service call.
C8_Witness ==
    /\ \A r \in Ids : Done(r)
    /\ \E r \in Ids : Failed(r) /\ Len(calls[r]) = 1 /\ Len(resp[r]) = 1

\* C9: the response status is 200, 201, 400 or 500; 201 is the answer of a
\* successful CreateGroup only; a request is answered 400 exactly when the
\* service was not invoked for it; GetGroups always invokes the service and
\* never answers 400.
C9_StatusCodes ==
    \A r \in Ids :
        /\ \A i \in 1..Len(resp[r]) :
              /\ resp[r][i].statusCode \in {200, 201, 400, 500}
              /\ resp[r][i].statusCode = 201 =>
                    (req[r].op = "CreateGroup" /\ Succeeded(r))
              /\ resp[r][i].statusCode = 400 <=> calls[r] = <<>>
        /\ Done(r) => resp[r] # <<>>
        /\ (req[r].op = "GetGroups" /\ Done(r)) => calls[r] # <<>>

\* A GetGroupMembers whose service call failed with "not found" has been
\* answered 500.
C9_Witness ==
    \E r \in Ids :
        /\ req[r].op = "GetGroupMembers"
        /\ Failed(r)
        /\ ret[r][1].err = "not found"
        /\ resp[r][1].statusCode = 500

\* C10: UpdateGroup checks groupID before it decodes the body: with an empty
\* groupID the response is 400 "Group ID is required" whatever the body, and
\* the body is not read; "Invalid request body" is answered only when groupID
\* is not empty.
C10_UpdateChecksIDFirst ==
    \A r \in Ids :
        req[r].op = "UpdateGroup" =>
            /\ req[r].groupID = "" =>
                  /\ ~bodyRead[r]
                  /\ calls[r] = <<>>
                  /\ Done(r) => resp[r] = << ErrorEnvelope(400, "Group ID is required") >>
            /\ \A i \in 1..Len(resp[r]) :
                  resp[r][i].message = "Invalid request body" => req[r].groupID # ""

\* An update with an empty groupID and a body that does not decode has been
\* answered.
C10_Witness ==
    \E r \in Ids :
        /\ req[r].op = "UpdateGroup"
        /\ req[r].groupID = ""
        /\ Decode(req[r].body).err # Nil
        /\ Done(r)
        /\ resp[r][1].message = "Group ID is required"

=============================================================================
